---- MODULE Spec2Model ----
(***************************************************************************)
(* The acceptor role of single-decree Paxos in gonetsync: the abstract     *)
(* in-memory acceptor, the FileAcceptor that persists it to a backing      *)
(* file, and the file's byte encoding.  The model follows the most recent  *)
(* revision of the acceptor (OnPrepare/OnPropose taking a uusn, with       *)
(* savePromisedUusn / saveAcceptedProposal), the wire encoding of the      *)
(* four messages and Proc.Respond, which dispatches request frames to the  *)
(* acceptor.  Spec is the FileAcceptor called directly, SpecRespond the    *)
(* acceptor behind Respond, SpecFaulty the same with writes that may fail, *)
(* SpecScenario the replay of the request tables.                          *)
(*                                                                         *)
(* Conventions.  A Go pointer or nil-able slice is a set with at most one  *)
(* element: nil is {} and a non-nil value x is {x}.  A byte sequence is a  *)
(* sequence of numbers in 0..255.                                          *)
(***************************************************************************)
EXTENDS Integers, Sequences, FiniteSets, TLC

(***************************************************************************)
(* Bounds of the model.                                                    *)
(***************************************************************************)
\* Proposal numbers (uint64 in the code) offered to the acceptor: 0..MaxUusn.
MaxUusn == 3

Uusn == 0..MaxUusn

nil == {}

Ptr(x) == {x}

Deref(p) == CHOOSE x \in p : TRUE

Max(a, b) == IF a >= b THEN a ELSE b

(***************************************************************************)
(* Values of the tests, and the values offered in PROPOSE requests: the    *)
(* nil slice, the empty slice, and slices of length one and two.           *)
(***************************************************************************)
someValue == <<7, 3>>

someOtherValue == <<163, 183>>

Values == {nil, Ptr(<<>>), Ptr(<<163>>), Ptr(someValue)}

(***************************************************************************)
(* Phase tags of paxos.proto.                                              *)
(***************************************************************************)
Phase_PREPARE == 0

\* Faulty variant: a tag one bit away from PREPARE.
Phase_PROPOSE_oneBit == Phase_PREPARE + 1

Phase_PROPOSE == 25

Phase_PROMISE == 51

Phase_ACCEPT == 120

Phases == {Phase_PREPARE, Phase_PROPOSE, Phase_PROMISE, Phase_ACCEPT}

\* The tags are 8-bit constants.
TagBits == 8

TagBit == 0..(TagBits - 1)

\* Bit b of the byte x.
BitOf(x, b) == (x \div 2^b) % 2

\* The byte x with bit b changed.
FlipBit(x, b) == IF BitOf(x, b) = 1 THEN x - 2^b ELSE x + 2^b

\* The number of bits in which the bytes x and y differ.
HammingDistance(x, y) == Cardinality({b \in TagBit : BitOf(x, b) # BitOf(y, b)})

(***************************************************************************)
(* type proposal struct { uusn uint64; val []byte }                        *)
(***************************************************************************)
proposal(uusn, val) == [uusn |-> uusn, val |-> val]

(***************************************************************************)
(* Messages built by the acceptor.  Optional fields (Uusn, Val) are nil    *)
(* when absent.                                                            *)
(***************************************************************************)
\* Faulty variant: the accepted value is left out of the promise.
NewPromiseMessage_noVal(uusn, ok, p) ==
    IF p = nil
    THEN [Phase |-> Phase_PROMISE, ReUusn |-> uusn, Ok |-> ok, Uusn |-> nil, Val |-> nil]
    ELSE [Phase |-> Phase_PROMISE, ReUusn |-> uusn, Ok |-> ok,
          Uusn |-> Ptr(Deref(p).uusn), Val |-> nil]

NewPromiseMessage(uusn, ok, p) ==
    IF p = nil
    THEN [Phase |-> Phase_PROMISE, ReUusn |-> uusn, Ok |-> ok,
          Uusn |-> nil, Val |-> nil]
    ELSE [Phase |-> Phase_PROMISE, ReUusn |-> uusn, Ok |-> ok,
          Uusn |-> Ptr(Deref(p).uusn), Val |-> Deref(p).val]

NewAcceptMessage(uusn, ok) ==
    [Phase |-> Phase_ACCEPT, ReUusn |-> uusn, Ok |-> ok]

(***************************************************************************)
(* The abstract acceptor: a record [promisedUusn, acceptedProposal].       *)
(***************************************************************************)
acceptor(promised, accepted) ==
    [promisedUusn |-> promised, acceptedProposal |-> accepted]

zeroAcceptor == acceptor(0, nil)

PromisedUusn(a) == a.promisedUusn

AcceptedUusn(a) ==
    IF a.acceptedProposal = nil THEN 0 ELSE Deref(a.acceptedProposal).uusn

\* Faulty variant: a number below the accepted one is refused as well.
isNew_aboveAccepted(a, uusn) ==
    a.promisedUusn <= uusn /\ AcceptedUusn(a) <= uusn

\* Faulty variant: a number equal to the promise is refused.
isNew_strict(a, uusn) == a.promisedUusn < uusn

\* Faulty variant: every number is taken.
isNew_always(a, uusn) == TRUE

isNew(a, uusn) == a.promisedUusn <= uusn

\* Faulty variant: a rejection reports the accepted proposal, not the promise.
acceptor_OnPrepare_infoAccepted(a, uusn) ==
    LET ok == a.promisedUusn <= uusn
    IN  [a   |-> IF ok THEN [a EXCEPT !.promisedUusn = uusn] ELSE a,
         msg |-> IF a.acceptedProposal = nil
                 THEN [Phase |-> Phase_PROMISE, ReUusn |-> uusn, Ok |-> ok,
                       Uusn |-> nil, Val |-> nil]
                 ELSE [Phase |-> Phase_PROMISE, ReUusn |-> uusn, Ok |-> ok,
                       Uusn |-> Ptr(Deref(a.acceptedProposal).uusn),
                       Val |-> Deref(a.acceptedProposal).val]]

\* acceptor.OnPrepare: the new acceptor state and the message returned.
acceptor_OnPrepare(a, uusn) ==
    LET ok   == isNew(a, uusn)
        info == IF ok THEN a.acceptedProposal
                      ELSE Ptr(proposal(a.promisedUusn, nil))
    IN  [a   |-> IF ok THEN [a EXCEPT !.promisedUusn = uusn] ELSE a,
         msg |-> NewPromiseMessage(uusn, ok, info)]

\* Faulty variant: a proposal with the number already accepted keeps the
\* value accepted first.
acceptor_OnPropose_keepFirst(a, uusn, val) ==
    LET ok   == a.promisedUusn <= uusn
        same == a.acceptedProposal # nil /\ Deref(a.acceptedProposal).uusn = uusn
    IN  [a   |-> IF ok /\ ~same
                 THEN [a EXCEPT !.acceptedProposal = Ptr([uusn |-> uusn, val |-> val])]
                 ELSE a,
         msg |-> [Phase |-> Phase_ACCEPT, ReUusn |-> uusn, Ok |-> ok]]

\* Faulty variant: accepting a proposal also advances the promise.
acceptor_OnPropose_advancesPromise(a, uusn, val) ==
    LET ok == a.promisedUusn <= uusn
    IN  [a   |-> IF ok
                 THEN [promisedUusn |-> uusn,
                       acceptedProposal |-> Ptr([uusn |-> uusn, val |-> val])]
                 ELSE a,
         msg |-> [Phase |-> Phase_ACCEPT, ReUusn |-> uusn, Ok |-> ok]]

\* acceptor.OnPropose: the new acceptor state and the message returned.
acceptor_OnPropose(a, uusn, val) ==
    LET ok == isNew(a, uusn)
    IN  [a   |-> IF ok THEN [a EXCEPT !.acceptedProposal = Ptr(proposal(uusn, val))]
                       ELSE a,
         msg |-> NewAcceptMessage(uusn, ok)]

(***************************************************************************)
(* Byte encoding of the acceptor state (encoding/binary, little endian).   *)
(***************************************************************************)
uusnByteCount == 64 \div 8

totalUusnByteCount == 2 * uusnByteCount

RECURSIVE byteOf(_, _)
\* Byte i (1 = least significant) of n.
byteOf(n, i) == IF i = 1 THEN n % 256 ELSE byteOf(n \div 256, i - 1)

\* binary.Write(w, LittleEndian, uint64)
putUint64(n) == [i \in 1..uusnByteCount |-> byteOf(n, i)]

RECURSIVE getUint64From(_, _)
getUint64From(b, i) ==
    IF i > uusnByteCount THEN 0 ELSE b[i] + 256 * getUint64From(b, i + 1)

\* binary.Read(r, LittleEndian, *uint64) of the 8 bytes b
getUint64(b) == getUint64From(b, 1)

\* The bytes binary.Write emits for a []byte (none for a nil slice).
putBytes(val) == IF val = nil THEN <<>> ELSE Deref(val)

\* Write data into the byte sequence f at offset off (0-based), as a write(2)
\* after Seek(off, 0) does: bytes are overwritten in place, the file grows
\* if needed (a hole reads as zeros), and it is never truncated.
WriteAt(f, off, data) ==
    IF Len(data) = 0 THEN f
    ELSE [i \in 1..Max(Len(f), off + Len(data)) |->
             IF i > off /\ i <= off + Len(data) THEN data[i - off]
             ELSE IF i <= Len(f) THEN f[i] ELSE 0]

\* Faulty variant: the promised number is not written.
savePromisedUusn_skip(f, a) == f

\* acceptorEncoder.encodePromisedUusn after Seek(0, 0)
savePromisedUusn(f, a) == WriteAt(f, 0, putUint64(a.promisedUusn))

\* acceptorEncoder.encodeAcceptedProposal after Seek(uusnByteCount, 0): the
\* number, then the value right behind it.
saveAcceptedProposal(f, a) ==
    LET p == Deref(a.acceptedProposal)
        g == WriteAt(f, uusnByteCount, putUint64(p.uusn))
    IN  WriteAt(g, totalUusnByteCount, putBytes(p.val))

\* Faulty variant: a file of exactly totalUusnByteCount bytes is taken to
\* hold no accepted proposal.
decode_offByOne(f) ==
    IF Len(f) < uusnByteCount
    THEN [a |-> zeroAcceptor, err |-> "EOF"]
    ELSE LET promised == getUint64(SubSeq(f, 1, uusnByteCount))
         IN  IF Len(f) <= totalUusnByteCount
             THEN [a |-> acceptor(promised, nil), err |-> "nil"]
             ELSE [a |-> acceptor(promised,
                           Ptr(proposal(
                               getUint64(SubSeq(f, uusnByteCount + 1, totalUusnByteCount)),
                               Ptr(SubSeq(f, totalUusnByteCount + 1, Len(f)))))),
                   err |-> "nil"]

\* Faulty variant: an empty file is read as the state of a new acceptor.
decode_emptyIsNew(f) ==
    IF Len(f) = 0
    THEN [a |-> zeroAcceptor, err |-> "nil"]
    ELSE IF Len(f) < uusnByteCount
    THEN [a |-> zeroAcceptor, err |-> "EOF"]
    ELSE LET promised == getUint64(SubSeq(f, 1, uusnByteCount))
         IN  IF Len(f) < totalUusnByteCount
             THEN [a |-> acceptor(promised, nil), err |-> "nil"]
             ELSE [a |-> acceptor(promised,
                           Ptr(proposal(
                               getUint64(SubSeq(f, uusnByteCount + 1, totalUusnByteCount)),
                               Ptr(SubSeq(f, totalUusnByteCount + 1, Len(f)))))),
                   err |-> "nil"]

\* acceptorDecoder.decode on a file holding the bytes f (size = Len(f)).
\* The acceptor returned on an error is the zero value filled so far.
decode(f) ==
    IF Len(f) < uusnByteCount
    THEN [a |-> zeroAcceptor, err |-> "EOF"]
    ELSE LET promised == getUint64(SubSeq(f, 1, uusnByteCount))
         IN  IF Len(f) < totalUusnByteCount
             THEN [a |-> acceptor(promised, nil), err |-> "nil"]
             ELSE [a |-> acceptor(promised,
                           Ptr(proposal(
                               getUint64(SubSeq(f, uusnByteCount + 1, totalUusnByteCount)),
                               Ptr(SubSeq(f, totalUusnByteCount + 1, Len(f)))))),
                   err |-> "nil"]

(***************************************************************************)
(* Wire format of the messages (paxos.proto through goprotobuf): a message *)
(* is the sequence of its set fields in field order, each a key byte       *)
(* (field number * 8 + wire type) followed by a varint (wire type 0) or by *)
(* a length and that many bytes (wire type 2).                             *)
(***************************************************************************)
\* Faulty variant: only the low seven bits are written.
EncodeVarint_oneByte(x) == <<x % 128>>

RECURSIVE EncodeVarint(_)
\* proto.EncodeVarint
EncodeVarint(x) ==
    IF x < 128 THEN <<x>>
    ELSE <<(x % 128) + 128>> \o EncodeVarint(x \div 128)

RECURSIVE decodeVarintAt(_, _)
\* The varint starting at index i of buf: its value x and the index n of its
\* last byte; n = 0 if buf ends before the varint does.
decodeVarintAt(buf, i) ==
    IF i > Len(buf) THEN [x |-> 0, n |-> 0]
    ELSE IF buf[i] < 128 THEN [x |-> buf[i], n |-> i]
    ELSE LET r == decodeVarintAt(buf, i + 1)
         IN  IF r.n = 0 THEN r
             ELSE [x |-> (buf[i] - 128) + 128 * r.x, n |-> r.n]

\* proto.DecodeVarint(buf): the value and the number of bytes read, (0, 0)
\* for a buffer that ends too early.
DecodeVarint(buf) == decodeVarintAt(buf, 1)

WireVarint == 0

WireBytes == 2

Key(field, wire) == field * 8 + wire

VarintField(field, x) == <<Key(field, WireVarint)>> \o EncodeVarint(x)

\* A bytes field; a nil slice is not set and is not encoded.
BytesField(field, val) ==
    IF val = nil THEN <<>>
    ELSE <<Key(field, WireBytes)>> \o EncodeVarint(Len(Deref(val))) \o Deref(val)

OptVarintField(field, p) == IF p = nil THEN <<>> ELSE VarintField(field, Deref(p))

BoolVarint(b) == IF b THEN 1 ELSE 0

RECURSIVE parseFields(_, _, _)
\* The fields of buf from index i on, added to the function fs from field
\* numbers to [wire, x, val]; a later occurrence of a field replaces an
\* earlier one.  err is "nil" or the error of a buffer that ends too early
\* or holds a wire type other than varint and bytes.
parseFields(buf, i, fs) ==
    IF i > Len(buf) THEN [fs |-> fs, err |-> "nil"]
    ELSE LET k     == decodeVarintAt(buf, i)
             field == k.x \div 8
             wire  == k.x % 8
         IN  IF k.n = 0 THEN [fs |-> fs, err |-> "io.ErrUnexpectedEOF"]
             ELSE IF wire = WireVarint
             THEN LET v == decodeVarintAt(buf, k.n + 1)
                  IN  IF v.n = 0 THEN [fs |-> fs, err |-> "io.ErrUnexpectedEOF"]
                      ELSE parseFields(buf, v.n + 1,
                               (field :> [wire |-> wire, x |-> v.x, val |-> <<>>]) @@ fs)
             ELSE IF wire = WireBytes
             THEN LET l == decodeVarintAt(buf, k.n + 1)
                  IN  IF l.n = 0 \/ l.n + l.x > Len(buf)
                      THEN [fs |-> fs, err |-> "io.ErrUnexpectedEOF"]
                      ELSE parseFields(buf, l.n + l.x + 1,
                               (field :> [wire |-> wire, x |-> 0,
                                          val |-> SubSeq(buf, l.n + 1, l.n + l.x)]) @@ fs)
             ELSE [fs |-> fs, err |-> "proto: bad wiretype"]

NoFields == [f \in {} |-> 0]

Has(fs, field, wire) == field \in DOMAIN fs /\ fs[field].wire = wire

\* The error of proto.Unmarshal for a message whose fields req (a set of
\* <<field, wire>>) are required and whose fields opt are optional.
unmarshalErr(p, req, opt) ==
    IF p.err # "nil" THEN p.err
    ELSE IF \E d \in req \cup opt : d[1] \in DOMAIN p.fs /\ p.fs[d[1]].wire # d[2]
    THEN "proto: bad wiretype"
    ELSE IF \E d \in req : d[1] \notin DOMAIN p.fs
    THEN "proto: required field not set"
    ELSE "nil"

OptVarint(fs, field) ==
    IF Has(fs, field, WireVarint) THEN Ptr(fs[field].x) ELSE nil

OptBytes(fs, field) ==
    IF Has(fs, field, WireBytes) THEN Ptr(fs[field].val) ELSE nil

\* NewPrepareMessage(uusn) and NewProposeMessage(&proposal{uusn, val})
NewPrepareMessage(uusn) == [Phase |-> Phase_PREPARE, Uusn |-> uusn]

NewProposeMessage(p) == [Phase |-> Phase_PROPOSE, Uusn |-> p.uusn, Val |-> p.val]

\* proto.Marshal of each of the four messages.
MarshalPrepare(m) == VarintField(1, m.Phase) \o VarintField(2, m.Uusn)

MarshalPropose(m) ==
    VarintField(1, m.Phase) \o VarintField(2, m.Uusn) \o BytesField(3, m.Val)

MarshalPromise(m) ==
    VarintField(1, m.Phase) \o VarintField(2, m.ReUusn)
        \o VarintField(3, BoolVarint(m.Ok))
        \o OptVarintField(4, m.Uusn) \o BytesField(5, m.Val)

MarshalAccept(m) ==
    VarintField(1, m.Phase) \o VarintField(2, m.ReUusn)
        \o VarintField(3, BoolVarint(m.Ok))

\* Faulty variant: the phase is read from the start of the frame.
Phase_fromStart(m) == DecodeVarint(m).x

\* Message.Phase(): the varint behind the first byte.
Phase(m) == DecodeVarint(SubSeq(m, 2, Len(m))).x

\* Message.toPrepareMessage(): the message (meaningful if err is "nil") and
\* the error of proto.Unmarshal.
toPrepareMessage(m) ==
    LET p   == parseFields(m, 1, NoFields)
        err == unmarshalErr(p, {<<1, WireVarint>>, <<2, WireVarint>>}, {})
    IN  [pb  |-> IF err = "nil"
                 THEN [Phase |-> p.fs[1].x, Uusn |-> p.fs[2].x]
                 ELSE [Phase |-> 0, Uusn |-> 0],
         err |-> err]

toProposeMessage(m) ==
    LET p   == parseFields(m, 1, NoFields)
        err == unmarshalErr(p, {<<1, WireVarint>>, <<2, WireVarint>>,
                                <<3, WireBytes>>}, {})
    IN  [pb  |-> IF err = "nil"
                 THEN [Phase |-> p.fs[1].x, Uusn |-> p.fs[2].x,
                       Val |-> Ptr(p.fs[3].val)]
                 ELSE [Phase |-> 0, Uusn |-> 0, Val |-> nil],
         err |-> err]

toPromiseMessage(m) ==
    LET p   == parseFields(m, 1, NoFields)
        err == unmarshalErr(p, {<<1, WireVarint>>, <<2, WireVarint>>,
                                <<3, WireVarint>>},
                            {<<4, WireVarint>>, <<5, WireBytes>>})
    IN  [pb  |-> IF err = "nil"
                 THEN [Phase |-> p.fs[1].x, ReUusn |-> p.fs[2].x,
                       Ok |-> p.fs[3].x # 0,
                       Uusn |-> OptVarint(p.fs, 4), Val |-> OptBytes(p.fs, 5)]
                 ELSE [Phase |-> 0, ReUusn |-> 0, Ok |-> FALSE,
                       Uusn |-> nil, Val |-> nil],
         err |-> err]

toAcceptMessage(m) ==
    LET p   == parseFields(m, 1, NoFields)
        err == unmarshalErr(p, {<<1, WireVarint>>, <<2, WireVarint>>,
                                <<3, WireVarint>>}, {})
    IN  [pb  |-> IF err = "nil"
                 THEN [Phase |-> p.fs[1].x, ReUusn |-> p.fs[2].x,
                       Ok |-> p.fs[3].x # 0]
                 ELSE [Phase |-> 0, ReUusn |-> 0, Ok |-> FALSE],
         err |-> err]

(***************************************************************************)
(* State.                                                                  *)
(***************************************************************************)
VARIABLES
    promisedUusn,      \* acceptor.promisedUusn
    acceptedProposal,  \* acceptor.acceptedProposal: nil or {proposal}
    file,              \* FileAcceptor.file: nil or the open file
    encoder,           \* FileAcceptor.encoder: nil or set by Start
    disk,              \* the backing file: nil if absent, else {bytes}
    pc,                \* "running", or "crashed" after a run-time panic
    call,              \* the last call made on the FileAcceptor
    msg,               \* the message the embedded acceptor built in that call
    ret,               \* what the call returned: [msg, err]
    promiseSent,       \* highest uusn for which a PROMISE with ok was returned
    replied,           \* TRUE once some request has been answered with a reply
    script,            \* the request table being replayed ("none" if none)
    step,              \* number of requests of the table applied so far
    frame,             \* the frame of the last call if it came through
                       \* Proc.Respond, else nil
    response,          \* what Proc.Respond returned for it: [bytes, err]
    failures,          \* number of writes that have failed so far
    wire,              \* a message put on the wire: [kind, m, bytes, back,
                       \* flipped]
    history            \* what is remembered of earlier calls and runs:
                       \* [failed, rerun, served, crashed, before, after,
                       \* carried]

acc == acceptor(promisedUusn, acceptedProposal)

vars == <<promisedUusn, acceptedProposal, file, encoder, disk, pc, call, msg,
          ret, promiseSent, replied, script, step, frame, response, failures,
          wire, history>>

\* The variables of the FileAcceptor and of what its last call did.
acceptorVars == <<promisedUusn, acceptedProposal, file, encoder, disk, pc, call,
                  msg, ret, promiseSent, replied>>

Call(name, uusn, val) == [name |-> name, uusn |-> uusn, val |-> val]

Ret(m, err) == [msg |-> m, err |-> err]

Resp(bytes, err) == [bytes |-> bytes, err |-> err]

\* Nothing has been put on the wire.
NoWire ==
    [kind |-> "none", m |-> nil, bytes |-> nil, back |-> nil, flipped |-> nil]

\* Nothing is remembered: no request is waiting to be repeated, the acceptor
\* was not created over the file of an earlier run, and it has answered no
\* request with ok; no request was cut short by the end of the process, and
\* no PROPOSE has carried a number and value.
NoHistory ==
    [failed |-> nil, rerun |-> FALSE, served |-> FALSE, crashed |-> FALSE,
     before |-> nil, after |-> nil, carried |-> {}]

\* A call made on the FileAcceptor itself, not through Proc.Respond.
Direct ==
    /\ frame' = nil
    /\ response' = Resp(nil, "nil")
    /\ UNCHANGED <<script, step, failures, wire, history>>

IsStarted == file # nil

\* NewFileAcceptor(name), with no backing file yet.
NewFileAcceptor ==
    /\ promisedUusn = 0
    /\ acceptedProposal = nil
    /\ file = nil
    /\ encoder = nil
    /\ disk = nil
    /\ pc = "running"
    /\ call = Call("NewFileAcceptor", 0, nil)
    /\ msg = nil
    /\ ret = Ret(nil, "nil")
    /\ promiseSent = 0
    /\ replied = FALSE

Init ==
    /\ NewFileAcceptor
    /\ script = "none"
    /\ step = 0
    /\ frame = nil
    /\ response = Resp(nil, "nil")
    /\ failures = 0
    /\ wire = NoWire
    /\ history = NoHistory

\* Faulty variant: a file that is created gets a promised number of 0.
Start_writesZero ==
    /\ pc = "running"
    /\ disk' = IF disk = nil THEN Ptr(putUint64(0)) ELSE disk
    /\ file' = Ptr("open")
    /\ encoder' = Ptr("encoder")
    /\ call' = Call("Start", 0, nil)
    /\ msg' = nil
    /\ ret' = Ret(nil, "nil")
    /\ UNCHANGED <<promisedUusn, acceptedProposal, pc, promiseSent, replied>>

(***************************************************************************)
(* FileAcceptor.Start: open the file write-only, creating it if absent     *)
(* (it is not truncated).                                                  *)
(***************************************************************************)
Start ==
    /\ pc = "running"
    /\ disk' = IF disk = nil THEN Ptr(<<>>) ELSE disk
    /\ file' = Ptr("open")
    /\ encoder' = Ptr("encoder")
    /\ call' = Call("Start", 0, nil)
    /\ msg' = nil
    /\ ret' = Ret(nil, "nil")
    /\ UNCHANGED <<promisedUusn, acceptedProposal, pc, promiseSent, replied>>

\* Faulty variant: the file is closed but fa.file is not cleared.
Stop_keepsFile ==
    /\ pc = "running"
    /\ call' = Call("Stop", 0, nil)
    /\ msg' = nil
    /\ ret' = Ret(nil, "nil")
    /\ UNCHANGED <<promisedUusn, acceptedProposal, file, encoder, disk, pc,
                   promiseSent, replied>>

(***************************************************************************)
(* FileAcceptor.Stop: close the file if started.                           *)
(***************************************************************************)
Stop ==
    /\ pc = "running"
    /\ file' = nil
    /\ call' = Call("Stop", 0, nil)
    /\ msg' = nil
    /\ ret' = Ret(nil, "nil")
    /\ UNCHANGED <<promisedUusn, acceptedProposal, encoder, disk, pc, promiseSent,
                   replied>>

(***************************************************************************)
(* FileAcceptor.Restart: open the file read-only, decode it into the       *)
(* embedded acceptor (the assignment happens whether or not decode         *)
(* failed), then Start.                                                    *)
(***************************************************************************)
Restart ==
    /\ pc = "running"
    /\ call' = Call("Restart", 0, nil)
    /\ msg' = nil
    /\ IF disk = nil
       THEN /\ ret' = Ret(nil, "ENOENT")
            /\ UNCHANGED <<promisedUusn, acceptedProposal, file, encoder, disk>>
       ELSE LET d == decode(Deref(disk))
            IN  /\ promisedUusn' = d.a.promisedUusn
                /\ acceptedProposal' = d.a.acceptedProposal
                /\ ret' = Ret(nil, d.err)
                /\ IF d.err # "nil"
                   THEN UNCHANGED <<file, encoder>>
                   ELSE /\ file' = Ptr("open")
                        /\ encoder' = Ptr("encoder")
                /\ UNCHANGED disk
    /\ UNCHANGED <<pc, promiseSent, replied>>

\* Faulty variant: the promised number is saved after a rejection too.
FileAcceptor_OnPrepare_savesAlways(uusn) ==
    /\ pc = "running"
    /\ LET r == acceptor_OnPrepare(acc, uusn)
       IN  /\ promisedUusn' = r.a.promisedUusn
           /\ acceptedProposal' = r.a.acceptedProposal
           /\ call' = Call("OnPrepare", uusn, nil)
           /\ msg' = Ptr(r.msg)
           /\ IF file = nil
              THEN /\ pc' = "crashed"
                   /\ ret' = Ret(nil, "panic")
                   /\ UNCHANGED <<disk, promiseSent, replied>>
              ELSE /\ disk' = Ptr(savePromisedUusn(Deref(disk), r.a))
                   /\ ret' = Ret(Ptr(r.msg), "nil")
                   /\ promiseSent' = IF r.msg.Ok THEN Max(promiseSent, uusn)
                                                 ELSE promiseSent
                   /\ replied' = TRUE
                   /\ UNCHANGED pc
    /\ UNCHANGED <<file, encoder>>

(***************************************************************************)
(* FileAcceptor.OnPrepare: delegate to the embedded acceptor; if the       *)
(* promise is ok, save the promised number.  On an acceptor that is not    *)
(* started, fa.file is nil and savePromisedUusn dereferences it: the call  *)
(* panics after the embedded acceptor has been changed.                    *)
(***************************************************************************)
FileAcceptor_OnPrepare(uusn) ==
    /\ pc = "running"
    /\ LET r == acceptor_OnPrepare(acc, uusn)
       IN  /\ promisedUusn' = r.a.promisedUusn
           /\ acceptedProposal' = r.a.acceptedProposal
           /\ call' = Call("OnPrepare", uusn, nil)
           /\ msg' = Ptr(r.msg)
           /\ IF r.msg.Ok /\ file = nil
              THEN /\ pc' = "crashed"
                   /\ ret' = Ret(nil, "panic")
                   /\ UNCHANGED <<disk, promiseSent, replied>>
              ELSE /\ disk' = IF r.msg.Ok
                              THEN Ptr(savePromisedUusn(Deref(disk), r.a))
                              ELSE disk
                   /\ ret' = Ret(Ptr(r.msg), "nil")
                   /\ promiseSent' = IF r.msg.Ok THEN Max(promiseSent, uusn)
                                                 ELSE promiseSent
                   /\ replied' = TRUE
                   /\ UNCHANGED pc
    /\ UNCHANGED <<file, encoder>>

(***************************************************************************)
(* FileAcceptor.OnPropose: delegate to the embedded acceptor; if the       *)
(* accept is ok, save the accepted proposal.                               *)
(***************************************************************************)
FileAcceptor_OnPropose(uusn, val) ==
    /\ pc = "running"
    /\ LET r == acceptor_OnPropose(acc, uusn, val)
       IN  /\ promisedUusn' = r.a.promisedUusn
           /\ acceptedProposal' = r.a.acceptedProposal
           /\ call' = Call("OnPropose", uusn, val)
           /\ msg' = Ptr(r.msg)
           /\ IF r.msg.Ok /\ file = nil
              THEN /\ pc' = "crashed"
                   /\ ret' = Ret(nil, "panic")
                   /\ UNCHANGED <<disk, replied>>
              ELSE /\ disk' = IF r.msg.Ok
                              THEN Ptr(saveAcceptedProposal(Deref(disk), r.a))
                              ELSE disk
                   /\ ret' = Ret(Ptr(r.msg), "nil")
                   /\ replied' = TRUE
                   /\ UNCHANGED pc
    /\ UNCHANGED <<file, encoder, promiseSent>>

(***************************************************************************)
(* The same calls when the write to the file fails.  The embedded acceptor *)
(* has been changed by then; the error of the write is returned and no     *)
(* message.  A failed write may have put any proper prefix of its bytes    *)
(* into the file: k is the number of bytes that got there.                 *)
(***************************************************************************)
WriteError == "EIO"

\* Faulty variant: the error of the write is dropped and the promise returned.
FileAcceptor_OnPrepare_writeFails_replies(uusn, k) ==
    /\ pc = "running"
    /\ file # nil
    /\ k < uusnByteCount
    /\ LET r == acceptor_OnPrepare(acc, uusn)
       IN  /\ r.msg.Ok
           /\ promisedUusn' = r.a.promisedUusn
           /\ acceptedProposal' = r.a.acceptedProposal
           /\ call' = Call("OnPrepare", uusn, nil)
           /\ msg' = Ptr(r.msg)
           /\ disk' = Ptr(WriteAt(Deref(disk), 0,
                                  SubSeq(putUint64(r.a.promisedUusn), 1, k)))
           /\ ret' = Ret(Ptr(r.msg), "nil")
    /\ UNCHANGED <<file, encoder, pc, promiseSent, replied>>

FileAcceptor_OnPrepare_writeFails(uusn, k) ==
    /\ pc = "running"
    /\ file # nil
    /\ k < uusnByteCount
    /\ LET r == acceptor_OnPrepare(acc, uusn)
       IN  /\ r.msg.Ok
           /\ promisedUusn' = r.a.promisedUusn
           /\ acceptedProposal' = r.a.acceptedProposal
           /\ call' = Call("OnPrepare", uusn, nil)
           /\ msg' = Ptr(r.msg)
           /\ disk' = Ptr(WriteAt(Deref(disk), 0,
                                  SubSeq(putUint64(r.a.promisedUusn), 1, k)))
           /\ ret' = Ret(nil, WriteError)
    /\ UNCHANGED <<file, encoder, pc, promiseSent, replied>>

\* The bytes saveAcceptedProposal writes from offset uusnByteCount on: the
\* accepted number, then the value.
acceptedProposalBytes(a) ==
    putUint64(Deref(a.acceptedProposal).uusn)
        \o putBytes(Deref(a.acceptedProposal).val)

\* Faulty variant: the error of the write is dropped and the accept returned.
FileAcceptor_OnPropose_writeFails_replies(uusn, val, k) ==
    /\ pc = "running"
    /\ file # nil
    /\ LET r == acceptor_OnPropose(acc, uusn, val)
       IN  /\ r.msg.Ok
           /\ k < Len(acceptedProposalBytes(r.a))
           /\ promisedUusn' = r.a.promisedUusn
           /\ acceptedProposal' = r.a.acceptedProposal
           /\ call' = Call("OnPropose", uusn, val)
           /\ msg' = Ptr(r.msg)
           /\ disk' = Ptr(WriteAt(Deref(disk), uusnByteCount,
                                  SubSeq(acceptedProposalBytes(r.a), 1, k)))
           /\ ret' = Ret(Ptr(r.msg), "nil")
    /\ UNCHANGED <<file, encoder, pc, promiseSent, replied>>

\* k < uusnByteCount: the write of the number fails; otherwise the number is
\* written and the write of the value fails.
FileAcceptor_OnPropose_writeFails(uusn, val, k) ==
    /\ pc = "running"
    /\ file # nil
    /\ LET r == acceptor_OnPropose(acc, uusn, val)
       IN  /\ r.msg.Ok
           /\ k < Len(acceptedProposalBytes(r.a))
           /\ promisedUusn' = r.a.promisedUusn
           /\ acceptedProposal' = r.a.acceptedProposal
           /\ call' = Call("OnPropose", uusn, val)
           /\ msg' = Ptr(r.msg)
           /\ disk' = Ptr(WriteAt(Deref(disk), uusnByteCount,
                                  SubSeq(acceptedProposalBytes(r.a), 1, k)))
           /\ ret' = Ret(nil, WriteError)
    /\ UNCHANGED <<file, encoder, pc, promiseSent, replied>>

\* The numbers of bytes a failed write is taken to have written: none, half
\* of a number, a whole number and nothing of the value, a number and one
\* byte of the value.
TornAt == {0, uusnByteCount \div 2, uusnByteCount, uusnByteCount + 1}

OnPrepare == \E uusn \in Uusn : FileAcceptor_OnPrepare(uusn)

OnPropose == \E uusn \in Uusn, val \in Values : FileAcceptor_OnPropose(uusn, val)

Next ==
    \/ Start /\ Direct
    \/ Stop /\ Direct
    \/ Restart /\ Direct
    \/ OnPrepare /\ Direct
    \/ OnPropose /\ Direct

Spec == Init /\ [][Next]_vars

(***************************************************************************)
(* Proc.Respond: read the phase of the frame and hand a PREPARE or a       *)
(* PROPOSE to the acceptor; the reply is the marshalled message.  A frame  *)
(* that does not decode is answered with the error of the decoder, and a   *)
(* frame of any other phase with ErrUnsupportedMessage.  An empty frame    *)
(* makes Message.Phase slice out of range: a run-time panic.               *)
(***************************************************************************)
ErrUnsupportedMessage == "ErrUnsupportedMessage"

ErrCorruptedMessage == "ErrCorruptedMessage"

\* Faulty variant: a frame of another phase is answered with no error.
unsupported_noError == Resp(nil, "nil")

\* What Respond returns after its switch.
unsupported == Resp(nil, ErrUnsupportedMessage)

\* The number of failed writes explored in one behaviour.
MaxFailures == 1

\* The acceptor as Respond calls it; with faulty, the write may fail.
Acceptor_OnPrepare(uusn, faulty) ==
    \/ /\ FileAcceptor_OnPrepare(uusn)
       /\ UNCHANGED failures
    \/ /\ faulty
       /\ failures < MaxFailures
       /\ \E k \in TornAt : FileAcceptor_OnPrepare_writeFails(uusn, k)
       /\ failures' = failures + 1

Acceptor_OnPropose(uusn, val, faulty) ==
    \/ /\ FileAcceptor_OnPropose(uusn, val)
       /\ UNCHANGED failures
    \/ /\ faulty
       /\ failures < MaxFailures
       /\ \E k \in TornAt : FileAcceptor_OnPropose_writeFails(uusn, val, k)
       /\ failures' = failures + 1

\* Faulty variant: every frame is handed to OnPrepare.
Respond_alwaysPrepare(m, faulty) ==
    /\ pc = "running"
    /\ frame' = Ptr(m)
    /\ UNCHANGED <<script, step, wire, history>>
    /\ Acceptor_OnPrepare(toPrepareMessage(m).pb.Uusn, faulty)
    /\ response' = IF ret'.err = "nil"
                   THEN Resp(Ptr(MarshalPromise(Deref(ret'.msg))), "nil")
                   ELSE Resp(nil, ret'.err)

Respond(m, faulty) ==
    /\ pc = "running"
    /\ frame' = Ptr(m)
    /\ UNCHANGED <<script, step, wire, history>>
    /\ IF Len(m) = 0
       THEN /\ pc' = "crashed"
            /\ response' = Resp(nil, "panic")
            /\ UNCHANGED <<promisedUusn, acceptedProposal, file, encoder, disk,
                           call, msg, ret, promiseSent, replied, failures>>
       ELSE IF Phase(m) = Phase_PREPARE
       THEN LET d == toPrepareMessage(m)
            IN  IF d.err # "nil"
                THEN /\ response' = Resp(nil, d.err)
                     /\ UNCHANGED <<acceptorVars, failures>>
                ELSE /\ Acceptor_OnPrepare(d.pb.Uusn, faulty)
                     /\ response' =
                            IF ret'.err = "nil"
                            THEN Resp(Ptr(MarshalPromise(Deref(ret'.msg))), "nil")
                            ELSE Resp(nil, ret'.err)
       ELSE IF Phase(m) = Phase_PROPOSE
       THEN LET d == toProposeMessage(m)
            IN  IF d.err # "nil"
                THEN /\ response' = Resp(nil, d.err)
                     /\ UNCHANGED <<acceptorVars, failures>>
                ELSE /\ Acceptor_OnPropose(d.pb.Uusn, d.pb.Val, faulty)
                     /\ response' =
                            IF ret'.err = "nil"
                            THEN Resp(Ptr(MarshalAccept(Deref(ret'.msg))), "nil")
                            ELSE Resp(nil, ret'.err)
       ELSE /\ response' = unsupported
            /\ UNCHANGED <<acceptorVars, failures>>

\* The frames of the requests the proposers send.
MaxFrameUusn == 2

FrameUusn == 0..MaxFrameUusn

RequestFrames ==
    {MarshalPrepare(NewPrepareMessage(u)) : u \in FrameUusn}
        \cup {MarshalPropose(NewProposeMessage(proposal(u, v))) :
                  u \in FrameUusn, v \in Values \ {nil}}

\* Frames of the two reply phases and of a phase paxos.proto does not have.
OtherPhaseFrames ==
    { MarshalPromise(NewPromiseMessage(1, TRUE, nil)),
      MarshalPromise(NewPromiseMessage(2, FALSE, Ptr(proposal(1, Ptr(someValue))))),
      MarshalAccept(NewAcceptMessage(1, TRUE)),
      VarintField(1, 7) \o VarintField(2, 1) }

\* Frames with the phase of a request that do not decode as that request: a
\* required field is missing, the frame ends inside a field, a field has
\* the wire type of another kind of field.
CorruptFrames ==
    { VarintField(1, Phase_PREPARE),
      VarintField(1, Phase_PREPARE) \o <<Key(2, WireVarint)>>,
      VarintField(1, Phase_PREPARE) \o BytesField(2, Ptr(<<1>>)),
      <<Key(1, WireVarint)>>,
      VarintField(1, Phase_PROPOSE),
      MarshalPrepare([Phase |-> Phase_PROPOSE, Uusn |-> 1]),
      MarshalPropose(NewProposeMessage(proposal(1, nil))),
      VarintField(1, Phase_PROPOSE) \o VarintField(2, 1)
          \o <<Key(3, WireBytes), 2, 7>> }

Frames == RequestFrames \cup OtherPhaseFrames \cup CorruptFrames \cup {<<>>}

RespondAny == \E m \in Frames : Respond(m, FALSE)

\* The requests sent while writes may fail: every PREPARE, and the PROPOSEs
\* of the two values of different lengths.
FaultyFrames ==
    {MarshalPrepare(NewPrepareMessage(u)) : u \in FrameUusn}
        \cup {MarshalPropose(NewProposeMessage(proposal(u, v))) :
                  u \in FrameUusn, v \in {Ptr(<<163>>), Ptr(someValue)}}

RespondFaulty == \E m \in FaultyFrames : Respond(m, TRUE)

\* The acceptor behind a responder, every write succeeding.
NextRespond ==
    \/ Start /\ Direct
    \/ Stop /\ Direct
    \/ Restart /\ Direct
    \/ RespondAny

SpecRespond == Init /\ [][NextRespond]_vars

\* The same with writes that may fail.
NextFaulty ==
    \/ Start /\ Direct
    \/ Stop /\ Direct
    \/ Restart /\ Direct
    \/ RespondFaulty

SpecFaulty == Init /\ [][NextFaulty]_vars

(***************************************************************************)
(* The four messages on the wire: a message is marshalled, and the bytes   *)
(* are unmarshalled as a message of the same kind.                         *)
(***************************************************************************)
\* Numbers carried in messages: the small ones and some whose varint has
\* one byte at most, two bytes at least.
WireUusn == Uusn \cup {127, 128, 300}

WireProposals == {Ptr(proposal(u, v)) : u \in WireUusn, v \in Values}

WireMessages ==
    {[kind |-> "PREPARE", m |-> NewPrepareMessage(u)] : u \in WireUusn}
        \cup {[kind |-> "PROPOSE", m |-> NewProposeMessage(proposal(u, v))] :
                  u \in WireUusn, v \in Values \ {nil}}
        \cup {[kind |-> "PROMISE", m |-> NewPromiseMessage(u, ok, p)] :
                  u \in WireUusn, ok \in BOOLEAN, p \in {nil} \cup WireProposals}
        \cup {[kind |-> "ACCEPT", m |-> NewAcceptMessage(u, ok)] :
                  u \in WireUusn, ok \in BOOLEAN}

Marshal(kind, m) ==
    CASE kind = "PREPARE" -> MarshalPrepare(m)
      [] kind = "PROPOSE" -> MarshalPropose(m)
      [] kind = "PROMISE" -> MarshalPromise(m)
      [] kind = "ACCEPT" -> MarshalAccept(m)

Unmarshal(kind, bytes) ==
    CASE kind = "PREPARE" -> toPrepareMessage(bytes)
      [] kind = "PROPOSE" -> toProposeMessage(bytes)
      [] kind = "PROMISE" -> toPromiseMessage(bytes)
      [] kind = "ACCEPT" -> toAcceptMessage(bytes)

Send ==
    /\ \E w \in WireMessages :
           wire' = [kind |-> w.kind, m |-> Ptr(w.m),
                    bytes |-> Ptr(Marshal(w.kind, w.m)), back |-> nil,
                    flipped |-> nil]
    /\ UNCHANGED <<acceptorVars, script, step, frame, response, failures, history>>

Receive ==
    /\ wire.bytes # nil
    /\ wire.back = nil
    /\ wire' = [wire EXCEPT !.back = Ptr(Unmarshal(wire.kind, Deref(wire.bytes)))]
    /\ UNCHANGED <<acceptorVars, script, step, frame, response, failures, history>>

NextWire ==
    \/ Send
    \/ Receive

SpecWire == Init /\ [][NextWire]_vars

(***************************************************************************)
(* Repeating a request whose write failed.  The caller calls the started   *)
(* FileAcceptor itself; the request whose write failed is remembered until *)
(* the same request is made again with the writes working.                 *)
(***************************************************************************)
RetryValues == {Ptr(<<163>>), Ptr(someValue)}

\* A call made by the caller that repeats requests.
Retrying(failed) ==
    /\ frame' = nil
    /\ response' = Resp(nil, "nil")
    /\ history' = [history EXCEPT !.failed = failed]
    /\ UNCHANGED <<script, step, wire>>

\* A request is made and its write fails.
RequestFails ==
    /\ failures < MaxFailures
    /\ history.failed = nil
    /\ \E k \in TornAt :
           \/ \E uusn \in FrameUusn : FileAcceptor_OnPrepare_writeFails(uusn, k)
           \/ \E uusn \in FrameUusn, val \in RetryValues :
                  FileAcceptor_OnPropose_writeFails(uusn, val, k)
    /\ failures' = failures + 1
    /\ Retrying(Ptr(call'))

\* A request is made and the writes work; it may be the one remembered.
Request ==
    /\ \/ \E uusn \in FrameUusn : FileAcceptor_OnPrepare(uusn)
       \/ \E uusn \in FrameUusn, val \in RetryValues :
              FileAcceptor_OnPropose(uusn, val)
    /\ UNCHANGED failures
    /\ Retrying(IF history.failed = Ptr(call') THEN nil ELSE history.failed)

NextRetry ==
    \/ Start /\ Direct
    \/ RequestFails
    \/ Request

SpecRetry == Init /\ [][NextRetry]_vars

(***************************************************************************)
(* A second run over the file of the first: the process ends, and a new    *)
(* process makes a FileAcceptor of the same name, whose file still holds   *)
(* what the first run saved.  The new acceptor is started with Start.      *)
(***************************************************************************)
\* NewFileAcceptor(name) in a new process, name being a file with state: the
\* fields are the zero values, the file is as the earlier run left it.
NewFileAcceptorOverFile ==
    /\ disk # nil
    /\ Deref(disk) # <<>>
    /\ ~history.rerun
    /\ promisedUusn' = 0
    /\ acceptedProposal' = nil
    /\ file' = nil
    /\ encoder' = nil
    /\ pc' = "running"
    /\ call' = Call("NewFileAcceptor", 0, nil)
    /\ msg' = nil
    /\ ret' = Ret(nil, "nil")
    /\ promiseSent' = 0
    /\ replied' = FALSE
    /\ frame' = nil
    /\ response' = Resp(nil, "nil")
    /\ history' = [history EXCEPT !.rerun = TRUE, !.served = FALSE]
    /\ UNCHANGED <<disk, script, step, failures, wire>>

\* A request made on the FileAcceptor itself; it is remembered whether a
\* request of this run has been answered with ok.
RunRequest ==
    /\ \/ \E uusn \in FrameUusn : FileAcceptor_OnPrepare(uusn)
       \/ \E uusn \in FrameUusn, val \in RetryValues :
              FileAcceptor_OnPropose(uusn, val)
    /\ frame' = nil
    /\ response' = Resp(nil, "nil")
    /\ history' = [history EXCEPT
                       !.served = @ \/ (ret'.msg # nil /\ Deref(ret'.msg).Ok)]
    /\ UNCHANGED <<script, step, failures, wire>>

NextRerun ==
    \/ Start /\ Direct
    \/ Stop /\ Direct
    \/ RunRequest
    \/ NewFileAcceptorOverFile

SpecRerun == Init /\ [][NextRerun]_vars

(***************************************************************************)
(* The process ends while a request is being saved: the embedded acceptor  *)
(* has been changed, k bytes of what is saved have reached the file, and   *)
(* nothing more is done by this process.  A new process then makes a       *)
(* FileAcceptor over the file and restores it with Restart.                *)
(***************************************************************************)
FileAcceptor_OnPrepare_crash(uusn, k) ==
    /\ pc = "running"
    /\ file # nil
    /\ k <= uusnByteCount
    /\ LET r == acceptor_OnPrepare(acc, uusn)
       IN  /\ r.msg.Ok
           /\ promisedUusn' = r.a.promisedUusn
           /\ acceptedProposal' = r.a.acceptedProposal
           /\ call' = Call("OnPrepare", uusn, nil)
           /\ msg' = Ptr(r.msg)
           /\ disk' = Ptr(WriteAt(Deref(disk), 0,
                                  SubSeq(putUint64(r.a.promisedUusn), 1, k)))
    /\ ret' = Ret(nil, "crash")
    /\ pc' = "crashed"
    /\ UNCHANGED <<file, encoder, promiseSent, replied>>

FileAcceptor_OnPropose_crash(uusn, val, k) ==
    /\ pc = "running"
    /\ file # nil
    /\ LET r == acceptor_OnPropose(acc, uusn, val)
       IN  /\ r.msg.Ok
           /\ k <= Len(acceptedProposalBytes(r.a))
           /\ promisedUusn' = r.a.promisedUusn
           /\ acceptedProposal' = r.a.acceptedProposal
           /\ call' = Call("OnPropose", uusn, val)
           /\ msg' = Ptr(r.msg)
           /\ disk' = Ptr(WriteAt(Deref(disk), uusnByteCount,
                                  SubSeq(acceptedProposalBytes(r.a), 1, k)))
    /\ ret' = Ret(nil, "crash")
    /\ pc' = "crashed"
    /\ UNCHANGED <<file, encoder, promiseSent, replied>>

\* The pairs of number and value PROPOSE requests have carried, call c being
\* the latest request.
Carrying(c) ==
    IF c.name = "OnPropose"
    THEN history.carried \cup {<<c.uusn, putBytes(c.val)>>}
    ELSE history.carried

\* A request made on the FileAcceptor itself and carried out.
CarriedRequest ==
    /\ ~history.crashed
    /\ \/ \E uusn \in FrameUusn : FileAcceptor_OnPrepare(uusn)
       \/ \E uusn \in FrameUusn, val \in RetryValues :
              FileAcceptor_OnPropose(uusn, val)
    /\ frame' = nil
    /\ response' = Resp(nil, "nil")
    /\ history' = [history EXCEPT !.carried = Carrying(call')]
    /\ UNCHANGED <<script, step, failures, wire>>

\* A request during whose saving the process ends; the embedded acceptor
\* before and after the request is remembered.
RequestCrashes ==
    /\ ~history.crashed
    /\ \E k \in TornAt :
           \/ \E uusn \in FrameUusn : FileAcceptor_OnPrepare_crash(uusn, k)
           \/ \E uusn \in FrameUusn, val \in RetryValues :
                  FileAcceptor_OnPropose_crash(uusn, val, k)
    /\ frame' = nil
    /\ response' = Resp(nil, "nil")
    /\ history' = [history EXCEPT !.crashed = TRUE,
                                  !.before = Ptr(acc),
                                  !.after = Ptr(acc'),
                                  !.carried = Carrying(call')]
    /\ UNCHANGED <<script, step, failures, wire>>

\* The first run up to the request that is cut short, then the new process
\* and its Restart.
NextCrash ==
    \/ ~history.crashed /\ Start /\ Direct
    \/ CarriedRequest
    \/ RequestCrashes
    \/ pc = "crashed" /\ NewFileAcceptorOverFile
    \/ history.rerun /\ Restart /\ Direct

SpecCrash == Init /\ [][NextCrash]_vars

(***************************************************************************)
(* A message whose phase tag has one bit changed in transit.  The tag is   *)
(* the second byte of the frame, behind the key of field 1.                *)
(***************************************************************************)
TagIndex == 2

Corrupt ==
    /\ wire.bytes # nil
    /\ wire.flipped = nil
    /\ \E b \in TagBit :
           LET bytes == Deref(wire.bytes)
           IN  wire' = [wire EXCEPT
                            !.bytes = Ptr([bytes EXCEPT
                                               ![TagIndex] = FlipBit(@, b)]),
                            !.flipped = Ptr(b)]
    /\ UNCHANGED <<acceptorVars, script, step, frame, response, failures, history>>

NextCorrupt ==
    \/ Send
    \/ Corrupt

SpecCorrupt == Init /\ [][NextCorrupt]_vars

(***************************************************************************)
(* Replaying a request table, as TestResponder and TestRestart do: the     *)
(* requests of the table are applied in order, and Start, Stop and Restart *)
(* may be called between them.                                             *)
(***************************************************************************)
Test(request, ok, promised, accepted) ==
    [request |-> request, expectedOk |-> ok,
     expectedPromisedUusn |-> promised, expectedAcceptedUusn |-> accepted]

Prepare(uusn) == Call("OnPrepare", uusn, nil)

Propose(uusn, val) == Call("OnPropose", uusn, Ptr(val))

\* The table of the repository's tests.
tests ==
    << Test(Prepare(1), TRUE, 1, 0),
       Test(Prepare(2), TRUE, 2, 0),
       Test(Prepare(1), FALSE, 2, 0),
       Test(Prepare(3), TRUE, 3, 0),
       Test(Propose(2, someValue), FALSE, 3, 0),
       Test(Propose(3, someValue), TRUE, 3, 3),
       Test(Prepare(2), FALSE, 3, 3),
       Test(Prepare(5), TRUE, 5, 3),
       Test(Prepare(7), TRUE, 7, 3),
       Test(Prepare(2), FALSE, 7, 3),
       Test(Propose(5, someValue), FALSE, 7, 3),
       Test(Propose(7, someValue), TRUE, 7, 7),
       Test(Prepare(7), TRUE, 7, 7),
       Test(Propose(7, someValue), TRUE, 7, 7),
       Test(Prepare(8), TRUE, 8, 7),
       Test(Propose(8, someOtherValue), TRUE, 8, 8) >>

\* The twelve requests of the end-to-end scenario, with the (ok, promised,
\* accepted) the scenario lists for each.
scenario ==
    << Test(Prepare(1), TRUE, 1, 0),
       Test(Prepare(2), TRUE, 2, 0),
       Test(Prepare(1), FALSE, 2, 0),
       Test(Prepare(3), TRUE, 3, 0),
       Test(Propose(2, someValue), FALSE, 3, 0),
       Test(Propose(3, someValue), TRUE, 3, 3),
       Test(Prepare(2), FALSE, 3, 3),
       Test(Prepare(5), TRUE, 5, 3),
       Test(Propose(5, someValue), FALSE, 5, 3),
       Test(Propose(7, someValue), TRUE, 7, 7),
       Test(Prepare(8), TRUE, 8, 7),
       Test(Propose(8, someOtherValue), TRUE, 8, 8) >>

Table == IF script = "tests" THEN tests ELSE scenario

ScriptStep ==
    /\ script # "none"
    /\ step < Len(Table)
    /\ LET t == Table[step + 1].request
       IN  IF t.name = "OnPrepare"
           THEN FileAcceptor_OnPrepare(t.uusn)
           ELSE FileAcceptor_OnPropose(t.uusn, t.val)
    /\ step' = step + 1
    /\ UNCHANGED <<script, frame, response, failures, wire, history>>

InitScenario ==
    /\ NewFileAcceptor
    /\ script \in {"tests", "scenario"}
    /\ step = 0
    /\ frame = nil
    /\ response = Resp(nil, "nil")
    /\ failures = 0
    /\ wire = NoWire
    /\ history = NoHistory

NextScenario ==
    \/ ScriptStep
    \/ Start /\ Direct
    \/ Stop /\ Direct
    \/ Restart /\ Direct

SpecScenario == InitScenario /\ [][NextScenario]_vars

(***************************************************************************)
(* Properties.                                                             *)
(***************************************************************************)
IsRequest(c) == c.name \in {"OnPrepare", "OnPropose"}

\* The reply returned by the last call is a message of phase ph.
Returned(ph) == ret.msg # nil /\ Deref(ret.msg).Phase = ph

\* C1 (promise safety): once a PROMISE with ok=true has been returned for n,
\* no later PROPOSE with a number below n is answered with an ACCEPT with
\* ok=true, over any sequence of OnPrepare, OnPropose, Stop and Restart calls.
C1_PromiseSafety ==
    (Returned(Phase_ACCEPT) /\ Deref(ret.msg).Ok)
        => Deref(ret.msg).ReUusn >= promiseSent

\* A PROPOSE below an earlier promise has been answered with a rejection by
\* an acceptor whose state was decoded by Restart (it holds a value that no
\* request carried: a shorter value written over a longer one in the file).
C1_Witness ==
    /\ Returned(Phase_ACCEPT)
    /\ ~Deref(ret.msg).Ok
    /\ Deref(ret.msg).ReUusn < promiseSent
    /\ acceptedProposal # nil
    /\ Deref(acceptedProposal).val \notin Values

\* C2: PromisedUusn() after a request is >= its value before the request,
\* for every OnPrepare and OnPropose request (number 0 included).
C2_PromisedNonDecreasing ==
    [][IsRequest(call') => promisedUusn' >= promisedUusn]_vars

\* A PREPARE with number 0 has been answered while the promise was above 0.
C2_Witness ==
    /\ call.name = "OnPrepare"
    /\ call.uusn = 0
    /\ ret.msg # nil
    /\ promisedUusn > 0

\* C3: AcceptedUusn() after a request is >= its value before the request,
\* for every OnPrepare and OnPropose request.
C3_AcceptedNonDecreasing ==
    [][IsRequest(call') => AcceptedUusn(acc)' >= AcceptedUusn(acc)]_vars

\* C4: OnPrepare(uusn) answers ok=true exactly when uusn >= promised, and
\* after an ok=true answer PromisedUusn() = uusn = max(old promised, uusn).
C4_PrepareOk ==
    [][call'.name = "OnPrepare" =>
          /\ Deref(msg').Phase = Phase_PROMISE
          /\ Deref(msg').Ok = (call'.uusn >= promisedUusn)
          /\ Deref(msg').Ok =>
                /\ promisedUusn' = call'.uusn
                /\ promisedUusn' = Max(promisedUusn, call'.uusn)]_vars

\* A PREPARE above 0 has been answered with ok=true and is the promise now.
C4_Witness ==
    /\ call.name = "OnPrepare"
    /\ Returned(Phase_PROMISE)
    /\ Deref(ret.msg).Ok
    /\ call.uusn > 0
    /\ promisedUusn = call.uusn

\* C5: OnPropose(uusn, val) answers {ReUusn = uusn, ok} with ok=true exactly
\* when uusn >= promised; after ok=true AcceptedUusn() = uusn and the stored
\* value is val (the latest value wins for an equal number); after ok=false
\* the accepted proposal is unchanged.
C5_ProposeOk ==
    [][call'.name = "OnPropose" =>
          /\ Deref(msg').Phase = Phase_ACCEPT
          /\ Deref(msg').ReUusn = call'.uusn
          /\ Deref(msg').Ok = (call'.uusn >= promisedUusn)
          /\ Deref(msg').Ok =>
                /\ AcceptedUusn(acc)' = call'.uusn
                /\ acceptedProposal' = Ptr(proposal(call'.uusn, call'.val))
          /\ ~Deref(msg').Ok => acceptedProposal' = acceptedProposal]_vars

\* A PROPOSE with the promised number (above 0) has been accepted.
C5_Witness ==
    /\ call.name = "OnPropose"
    /\ Returned(Phase_ACCEPT)
    /\ Deref(ret.msg).Ok
    /\ call.uusn = promisedUusn
    /\ promisedUusn > 0
    /\ acceptedProposal = Ptr(proposal(call.uusn, call.val))

\* C6: a rejected PREPARE (uusn < promised) changes neither promised nor
\* accepted, and its reply is {ReUusn = uusn, ok = false, Uusn = promised,
\* Val absent}: the promised number, not the accepted one.
C6_RejectedPrepare ==
    [][(call'.name = "OnPrepare" /\ call'.uusn < promisedUusn) =>
          /\ promisedUusn' = promisedUusn
          /\ acceptedProposal' = acceptedProposal
          /\ msg' = Ptr([Phase |-> Phase_PROMISE, ReUusn |-> call'.uusn,
                         Ok |-> FALSE, Uusn |-> Ptr(promisedUusn), Val |-> nil])
          /\ ret' = Ret(msg', "nil")]_vars

\* A PREPARE has been rejected while an accepted proposal with another
\* number than the promised one, and with a value, was held.
C6_Witness ==
    /\ call.name = "OnPrepare"
    /\ Returned(Phase_PROMISE)
    /\ ~Deref(ret.msg).Ok
    /\ acceptedProposal # nil
    /\ Deref(acceptedProposal).val # nil
    /\ AcceptedUusn(acc) # promisedUusn

\* C7: a successful PREPARE reply echoes ReUusn = uusn and carries the
\* accepted proposal held at the time of the request (number and value);
\* Uusn and Val are both absent iff no proposal has been accepted.
C7_PromiseCarriesAccepted ==
    [][(call'.name = "OnPrepare" /\ Deref(msg').Ok) =>
          /\ Deref(msg').ReUusn = call'.uusn
          /\ (Deref(msg').Uusn = nil /\ Deref(msg').Val = nil)
                <=> (acceptedProposal = nil)
          /\ acceptedProposal # nil =>
                /\ Deref(msg').Uusn = Ptr(Deref(acceptedProposal).uusn)
                /\ Deref(msg').Val = Deref(acceptedProposal).val
          /\ file # nil => ret' = Ret(msg', "nil")]_vars

\* A PROMISE with ok=true carrying an accepted number and a non-empty value
\* has been returned.
C7_Witness ==
    /\ Returned(Phase_PROMISE)
    /\ Deref(ret.msg).Ok
    /\ Deref(ret.msg).Uusn # nil
    /\ Deref(ret.msg).Val = Ptr(someValue)

\* The request of the last call applied once more to the embedded acceptor.
Again ==
    IF call.name = "OnPrepare"
    THEN acceptor_OnPrepare(acc, call.uusn)
    ELSE acceptor_OnPropose(acc, call.uusn, call.val)

\* C8 as stated: applying the same PREPARE or PROPOSE twice in a row leaves
\* the same (promised, accepted) as applying it once, and the second reply
\* has ok=true.
C8_IdempotentAlwaysOk ==
    IsRequest(call) => (Again.a = acc /\ Again.msg.Ok)

\* C8 as amended: applying the same PREPARE or PROPOSE twice in a row leaves
\* the same (promised, accepted) as applying it once, and the second reply
\* equals the first: ok=true if the first was ok=true, ok=false if the
\* first was a rejection.
C8_Idempotent ==
    IsRequest(call) => (Again.a = acc /\ Again.msg = Deref(msg))

\* A PROPOSE above the promise has been accepted with a value, and one with
\* ok=true is the case of the claim.
C8_Witness ==
    /\ call.name = "OnPropose"
    /\ Returned(Phase_ACCEPT)
    /\ Deref(ret.msg).Ok
    /\ call.val # nil
    /\ Again.msg.Ok

\* C10: after at least one answered request, starting from an absent backing
\* file, Stop followed by Restart gives back the PromisedUusn() and
\* AcceptedUusn() held before the Stop, and the acceptor is started again.
C10_RestartRestores ==
    [][(call'.name = "Restart" /\ call.name = "Stop" /\ replied) =>
          /\ ret'.err = "nil"
          /\ promisedUusn' = promisedUusn
          /\ AcceptedUusn(acc)' = AcceptedUusn(acc)
          /\ file' # nil]_vars

\* Restart after Stop has restored a promise and an accepted proposal whose
\* number is below the promise.
C10_Witness ==
    /\ call.name = "Restart"
    /\ ret.err = "nil"
    /\ replied
    /\ file # nil
    /\ promisedUusn > AcceptedUusn(acc)
    /\ AcceptedUusn(acc) > 0

\* The (ok, promised, accepted) found after the first n requests of table t
\* are the ones in row n of table e.
Expect(t, e) ==
    (script = t /\ step >= 1 /\ pc = "running") =>
        /\ promisedUusn = e[step].expectedPromisedUusn
        /\ AcceptedUusn(acc) = e[step].expectedAcceptedUusn
        /\ IsRequest(call) =>
              /\ ret.msg # nil
              /\ Deref(ret.msg).Ok = e[step].expectedOk

\* The expectations of the repository's tests (TestResponder, TestRestart)
\* hold at every step, with Stop and Restart between any two requests.
TestsPass == Expect("tests", tests)

\* C9 as stated: the twelve-step scenario yields at every step the listed
\* (ok, promised, accepted); step 9 (PROPOSE 5 with promised = 5) is rejected
\* leaving (5, 3) and step 10 (PROPOSE 7) leaves promised = 7, accepted = 7.
C9_ScenarioAsListed == Expect("scenario", scenario)

\* Rows 9 to 12 as the acceptor answers them.
scenarioAmended ==
    [scenario EXCEPT
        ![9] = Test(Propose(5, someValue), TRUE, 5, 5),
        ![10] = Test(Propose(7, someValue), TRUE, 5, 7)]

\* C9 as amended: the twelve-step scenario yields rows 1 to 8, 11 and 12 as
\* listed; step 9 (PROPOSE 5 with promised = 5) is accepted, leaving (5, 5),
\* and step 10 (PROPOSE 7) is accepted, leaving promised = 5, accepted = 7;
\* Stop and Restart after any step keep the row's (promised, accepted).
C9_Scenario == Expect("scenario", scenarioAmended)

\* Stop and Restart after step 10 of the scenario show (5, 7).
C9_Witness ==
    /\ script = "scenario"
    /\ step = 10
    /\ call.name = "Restart"
    /\ ret.err = "nil"
    /\ file # nil
    /\ promisedUusn = 5
    /\ acceptedProposal = Ptr(proposal(7, Ptr(someValue)))

\* Two acceptor states with the same promised number, the same accepted
\* number and the same accepted value bytes.
SameState(a, b) ==
    /\ a.promisedUusn = b.promisedUusn
    /\ (a.acceptedProposal = nil) = (b.acceptedProposal = nil)
    /\ AcceptedUusn(a) = AcceptedUusn(b)
    /\ a.acceptedProposal # nil =>
           putBytes(Deref(a.acceptedProposal).val)
               = putBytes(Deref(b.acceptedProposal).val)

\* C11: after every OnPrepare or OnPropose that returned a reply, decoding
\* the backing file gives the state held in memory: the same promised
\* number, the same accepted number and the same accepted value bytes, also
\* when the value written is shorter than the one written before.
C11_FileReflectsMemory ==
    (IsRequest(call) /\ ret.msg # nil /\ ret.err = "nil" /\ disk # nil) =>
        LET d == decode(Deref(disk))
        IN  d.err = "nil" /\ SameState(d.a, acc)

\* What the embedded acceptor makes of the request of call c in state a.
Applied(a, c) ==
    IF c.name = "OnPrepare" THEN acceptor_OnPrepare(a, c.uusn)
    ELSE acceptor_OnPropose(a, c.uusn, c.val)

\* C12: when a request is acceptable and the write of it fails, OnPrepare or
\* OnPropose returns the error and no message, Respond returns the error
\* and no reply bytes, and the promised number and accepted proposal in
\* memory are the new ones.
C12_PersistFailure ==
    [][failures' > failures =>
          /\ IsRequest(call')
          /\ ret' = Ret(nil, WriteError)
          /\ response' = Resp(nil, WriteError)
          /\ Applied(acc, call').msg.Ok
          /\ acc' = Applied(acc, call').a]_vars

\* A PREPARE above the promise whose write failed: the error is returned,
\* memory holds the new promise and the file does not.
C12_Witness ==
    /\ failures > 0
    /\ call.name = "OnPrepare"
    /\ ret = Ret(nil, WriteError)
    /\ response = Resp(nil, WriteError)
    /\ promisedUusn = call.uusn
    /\ promisedUusn > 0
    /\ decode(Deref(disk)).a.promisedUusn # promisedUusn

\* The bytes n..m of the file (1-based), <<>> where the file is shorter.
FileBytes(n, m) ==
    IF disk = nil \/ Len(Deref(disk)) < m THEN <<>> ELSE SubSeq(Deref(disk), n, m)

\* C13: whenever a reply with ok = true has been returned, the write for it
\* has completed: after a PROMISE the file starts with the promised number,
\* after an ACCEPT it holds the accepted number and the value bytes from
\* offset uusnByteCount on.
C13_PersistBeforeReply ==
    (IsRequest(call) /\ ret.msg # nil /\ Deref(ret.msg).Ok) =>
        /\ ret.err = "nil"
        /\ IF call.name = "OnPrepare"
           THEN FileBytes(1, uusnByteCount) = putUint64(call.uusn)
           ELSE FileBytes(uusnByteCount + 1,
                          totalUusnByteCount + Len(putBytes(call.val)))
                    = putUint64(call.uusn) \o putBytes(call.val)

\* An ACCEPT with ok = true returned for a request sent again after its
\* first write failed.
C13_Witness ==
    /\ failures > 0
    /\ call.name = "OnPropose"
    /\ call.val = Ptr(someValue)
    /\ ret.msg # nil
    /\ Deref(ret.msg).Ok
    /\ response.bytes # nil
    /\ FileBytes(totalUusnByteCount + 1, totalUusnByteCount + 2) = someValue

\* The last step was Proc.Respond on a frame that has a phase.
Responded == frame # nil /\ Len(Deref(frame)) > 0

\* The phase of the frame of the last Respond.
FramePhase == Phase(Deref(frame))

\* C14: Respond on a frame whose phase is neither PREPARE nor PROPOSE (a
\* PROMISE, an ACCEPT, a number outside the enum) returns no reply and
\* ErrUnsupportedMessage, and changes neither the acceptor nor its file.
C14_UnsupportedPhase ==
    [][(Responded' /\ FramePhase' \notin {Phase_PREPARE, Phase_PROPOSE}) =>
          /\ response' = Resp(nil, ErrUnsupportedMessage)
          /\ UNCHANGED <<promisedUusn, acceptedProposal, file, disk>>]_vars

\* A PROMISE frame handed to an acceptor that has promised and accepted.
C14_Witness ==
    /\ Responded
    /\ FramePhase = Phase_PROMISE
    /\ response = Resp(nil, ErrUnsupportedMessage)
    /\ promisedUusn > 0
    /\ acceptedProposal # nil
    /\ file # nil

\* The error of decoding frame m as the request its phase names.
RequestDecodeErr(m) ==
    IF Phase(m) = Phase_PREPARE THEN toPrepareMessage(m).err
    ELSE toProposeMessage(m).err

\* C15: Respond on a frame with phase PREPARE or PROPOSE that does not
\* decode as that request returns no reply and ErrCorruptedMessage, without
\* calling the acceptor: nothing of the acceptor or its file changes.
C15_CorruptMessage ==
    [][(/\ Responded'
        /\ FramePhase' \in {Phase_PREPARE, Phase_PROPOSE}
        /\ RequestDecodeErr(Deref(frame')) # "nil") =>
          /\ response' = Resp(nil, ErrCorruptedMessage)
          /\ UNCHANGED acceptorVars]_vars

\* C16: Respond on the frame of PREPARE(pn) leaves the acceptor, its file
\* and the result of the call as OnPrepare(pn) called directly in the same
\* state does, and returns the encoding of the message OnPrepare returns
\* (none if OnPrepare returns none); the same for PROPOSE(pn, v) and
\* OnPropose(pn, v).  This holds in every reachable state, whatever Respond
\* was handed before.
C16_Dispatch ==
    [][/\ \A pn \in FrameUusn :
              frame' = Ptr(MarshalPrepare(NewPrepareMessage(pn))) =>
                  /\ FileAcceptor_OnPrepare(pn)
                  /\ IF ret'.msg = nil THEN response'.bytes = nil
                     ELSE /\ response'.err = "nil"
                          /\ toPromiseMessage(Deref(response'.bytes))
                                 = [pb |-> Deref(ret'.msg), err |-> "nil"]
       /\ \A pn \in FrameUusn, v \in Values \ {nil} :
              frame' = Ptr(MarshalPropose(NewProposeMessage(proposal(pn, v)))) =>
                  /\ FileAcceptor_OnPropose(pn, v)
                  /\ IF ret'.msg = nil THEN response'.bytes = nil
                     ELSE /\ response'.err = "nil"
                          /\ toAcceptMessage(Deref(response'.bytes))
                                 = [pb |-> Deref(ret'.msg), err |-> "nil"]]_vars

\* A PROPOSE frame accepted through Respond after a PREPARE was promised:
\* the reply decodes as ACCEPT with ok = true and the proposal is in memory
\* and in the file.
C16_Witness ==
    /\ frame = Ptr(MarshalPropose(NewProposeMessage(proposal(2, Ptr(someValue)))))
    /\ response.bytes # nil
    /\ toAcceptMessage(Deref(response.bytes)).pb = NewAcceptMessage(2, TRUE)
    /\ promiseSent = 2
    /\ acceptedProposal = Ptr(proposal(2, Ptr(someValue)))
    /\ decode(Deref(disk)).a = acc

\* The step is a PREPARE or PROPOSE request, handed to Respond, whose number
\* is below the promise held before it.
RejectedRequest ==
    /\ Responded'
    /\ FramePhase' \in {Phase_PREPARE, Phase_PROPOSE}
    /\ RequestDecodeErr(Deref(frame')) = "nil"
    /\ call'.uusn < promisedUusn

\* C17: a request with a number below the promise is answered like any
\* other: OnPrepare/OnPropose return a message with ok = false and no error,
\* Respond returns its encoding and no error, nothing is written to the
\* file and no write is attempted (also on an acceptor that is not started
\* or whose file lags behind memory), and memory is unchanged.
C17_RejectionIsReply ==
    [][RejectedRequest =>
          /\ ret'.msg # nil
          /\ ~Deref(ret'.msg).Ok
          /\ ret'.err = "nil"
          /\ response'.bytes # nil
          /\ response'.err = "nil"
          /\ IF call'.name = "OnPrepare"
             THEN toPromiseMessage(Deref(response'.bytes)).pb = Deref(ret'.msg)
             ELSE toAcceptMessage(Deref(response'.bytes)).pb = Deref(ret'.msg)
          /\ pc' = "running"
          /\ UNCHANGED <<promisedUusn, acceptedProposal, disk, file, failures>>]_vars

\* A rejected PREPARE on an acceptor that is stopped and whose file holds
\* another promise than memory (a write failed before).
C17_Witness ==
    /\ Responded
    /\ call.name = "OnPrepare"
    /\ call.uusn < promisedUusn
    /\ response.bytes # nil
    /\ ~toPromiseMessage(Deref(response.bytes)).pb.Ok
    /\ file = nil
    /\ failures > 0
    /\ decode(Deref(disk)).a.promisedUusn # promisedUusn

\* The step is a call of Restart.
RestartStep == call'.name = "Restart" /\ frame' = nil

\* The backing file is absent or empty.
NoState == disk = nil \/ disk = Ptr(<<>>)

\* C18 as stated: Restart with the backing file absent or empty returns an
\* error and the acceptor is not started afterwards.
C18_RestartLeavesStopped ==
    [][(RestartStep /\ NoState) => (ret'.err # "nil" /\ file' = nil)]_vars

\* C18 as amended: Restart with the backing file absent or empty returns an
\* error and does not start the acceptor: IsStarted() is as before the
\* call, so false when Restart is called on an acceptor that is not started
\* (a new one, or Start(); Stop(); Restart() with no request in between),
\* and the file is left as it was.
C18_RestartDoesNotStart ==
    [][(RestartStep /\ NoState) =>
          /\ ret'.err # "nil"
          /\ file' = file
          /\ disk' = disk]_vars

\* Start(); Stop(); Restart() with no request: the file is empty, Restart
\* has returned an error and the acceptor is not started.
C18_Witness ==
    /\ call.name = "Restart"
    /\ disk = Ptr(<<>>)
    /\ ret.err = "EOF"
    /\ file = nil
    /\ ~replied

\* The number in bytes n..m (1-based) of the backing file.
FileUint64(n, m) == getUint64(SubSeq(Deref(disk), n, m))

\* Restart returned an error and did not start the acceptor.
RestartRejected == ret'.err # "nil" /\ file' = file

\* Restart returned no error, the acceptor is started and holds the promised
\* number of the first 8 bytes of the file.
RestartRestoredPromise ==
    /\ ret'.err = "nil"
    /\ file' # nil
    /\ promisedUusn' = FileUint64(1, 8)

\* Restart with a file of 16 bytes or more: the accepted number is that of
\* bytes 9..16 and the accepted value has the length of the file less 16.
RestartRestoredAccepted ==
    /\ RestartRestoredPromise
    /\ acceptedProposal' # nil
    /\ Deref(acceptedProposal').uusn = FileUint64(9, 16)
    /\ Len(putBytes(Deref(acceptedProposal').val)) = Len(Deref(disk)) - 16

C20_Lifecycle ==
    /\ [](/\ call.name = "NewFileAcceptor" => ~IsStarted
          /\ (call.name \in {"Start", "Restart"} /\ ret.err = "nil") => IsStarted
          /\ call.name = "Stop" => ~IsStarted)
    /\ [][(call'.name = "Stop" /\ frame' = nil) =>
             /\ ~IsStarted => ret'.err = "nil"
             /\ UNCHANGED <<promisedUusn, acceptedProposal, disk>>]_vars

\* Stop after an accepted proposal: not started, memory and file still hold
\* the proposal.
C20_Witness ==
    /\ call.name = "Stop"
    /\ ~IsStarted
    /\ ret.err = "nil"
    /\ acceptedProposal = Ptr(proposal(2, Ptr(someValue)))
    /\ decode(Deref(disk)).a = acc

\* C21: a new acceptor has PromisedUusn() = 0 and AcceptedUusn() = 0, and
\* Start with no backing file creates an empty file, returns no error and
\* leaves the promised number and the accepted proposal as they were.
C21_NewAndStart ==
    /\ [](call.name = "NewFileAcceptor" =>
              (PromisedUusn(acc) = 0 /\ AcceptedUusn(acc) = 0))
    /\ [][(call'.name = "Start" /\ frame' = nil /\ disk = nil) =>
             /\ disk' = Ptr(<<>>)
             /\ ret'.err = "nil"
             /\ UNCHANGED <<promisedUusn, acceptedProposal>>]_vars

\* Start on a new acceptor: the file exists and is empty.
C21_Witness ==
    /\ call.name = "Start"
    /\ disk = Ptr(<<>>)
    /\ file # nil
    /\ promisedUusn = 0
    /\ acceptedProposal = nil
    /\ ~replied

\* The acceptor holds a promise above 0 or an accepted proposal: some
\* PREPARE or PROPOSE has been answered with ok = true.
Transitioned == promisedUusn > 0 \/ acceptedProposal # nil

\* The step is a direct OnPrepare or OnPropose with number 0.
RequestZero == IsRequest(call') /\ frame' = nil /\ call'.uusn = 0

ErrNotStarted == "NotStarted"

\* C23: OnPrepare or OnPropose on an acceptor that is not started (never
\* started, or stopped) returns the NotStarted error and no message, and
\* the process goes on running.
C23_NotStarted ==
    (IsRequest(call) /\ ~IsStarted) =>
        (ret = Ret(nil, ErrNotStarted) /\ pc = "running")

\* The accepted proposal of acceptor a has an empty value.
EmptyAccepted(a) ==
    a.acceptedProposal # nil /\ putBytes(Deref(a.acceptedProposal).val) = <<>>

\* C24: a PROPOSE with an empty value and a number not below the promise is
\* accepted on a started acceptor (ok = true, AcceptedUusn() is the
\* number), and Stop followed by Restart gives back an accepted proposal
\* with that number and an empty value, from a file of exactly 16 bytes.
C24_EmptyValue ==
    [][/\ (/\ call'.name = "OnPropose"
           /\ frame' = nil
           /\ putBytes(call'.val) = <<>>
           /\ call'.uusn >= promisedUusn
           /\ IsStarted) =>
              /\ ret'.msg # nil
              /\ Deref(ret'.msg).Ok
              /\ AcceptedUusn(acc') = call'.uusn
              /\ EmptyAccepted(acc')
       /\ (RestartStep /\ call.name = "Stop" /\ EmptyAccepted(acc)) =>
              /\ ret'.err = "nil"
              /\ EmptyAccepted(acc')
              /\ AcceptedUusn(acc') = AcceptedUusn(acc)
              /\ Len(Deref(disk')) = totalUusnByteCount]_vars

\* C25: for each of the four kinds of message and all field values offered
\* (numbers with one-byte and two-byte varints, values nil, empty and not
\* empty, PROMISE with and without the accepted proposal), unmarshalling
\* the marshalled message succeeds and gives the same phase and the same
\* fields, an optional field that was not set staying not set; the phase
\* Message.Phase reads from the bytes is the phase of the message.
C25_RoundTrip ==
    wire.back # nil =>
        /\ Deref(wire.back) = [pb |-> Deref(wire.m), err |-> "nil"]
        /\ Phase(Deref(wire.bytes)) = Deref(wire.m).Phase

\* A PROMISE with a two-byte number and an accepted proposal has come back.
C25_Witness ==
    /\ wire.kind = "PROMISE"
    /\ wire.back # nil
    /\ Deref(wire.back).pb =
           NewPromiseMessage(300, TRUE, Ptr(proposal(128, Ptr(someValue))))

\* C26: OnPrepare leaves the accepted proposal (number and value) as it
\* was, whether the PREPARE is promised or rejected; OnPropose leaves the
\* promised number as it was, also when it accepts a number greater than
\* the promised one.
C26_FrameConditions ==
    [][/\ call'.name = "OnPrepare" => acceptedProposal' = acceptedProposal
       /\ call'.name = "OnPropose" => promisedUusn' = promisedUusn]_vars

\* A PROPOSE above the promised number has been accepted, the promise
\* staying behind it.
C26_Witness ==
    /\ call.name = "OnPropose"
    /\ call.uusn = 2
    /\ ret.msg # nil
    /\ Deref(ret.msg).Ok
    /\ AcceptedUusn(acc) = 2
    /\ promisedUusn = 1

\* The request whose write failed is made again, with the writes working.
Retried == history.failed # nil /\ history'.failed = nil

\* C27: when a request whose write failed is repeated with the writes
\* working, whatever requests succeeded in between, the repeated request is
\* answered with ok=true, and the file then decodes to the promised number
\* and accepted proposal in memory.
C27_RetryIsSafe ==
    [][Retried =>
          /\ ret'.err = "nil"
          /\ ret'.msg # nil
          /\ Deref(ret'.msg).Ok
          /\ decode(Deref(disk')).err = "nil"
          /\ SameState(decode(Deref(disk')).a, acc')]_vars

\* C30: when Restart returns an error, whether the file is absent, empty,
\* too short or otherwise not decodable, the promised number and accepted
\* proposal in memory are those of before the call, and the acceptor is
\* started exactly if it was.
C30_FailedRestartNoEffect ==
    [][(RestartStep /\ ret'.err # "nil") =>
          /\ acc' = acc
          /\ IsStarted' = IsStarted]_vars

\* The first request of a second run that is answered with ok.
FirstServedOfRerun == history.rerun /\ ~history.served /\ history'.served

\* C29: a new acceptor is made over the file of an earlier run and started
\* with Start; after the first OnPrepare or OnPropose it answers with ok,
\* the file decodes to the promised number and accepted proposal in memory,
\* nothing of the earlier run's accepted proposal being left in it.
C29_StartOverOldFile ==
    [][FirstServedOfRerun =>
          /\ decode(Deref(disk')).err = "nil"
          /\ SameState(decode(Deref(disk')).a, acc')]_vars

\* Restart is the first call on the acceptor made after the process ended
\* inside a request.
RestartAfterCrash ==
    history.crashed /\ call.name = "NewFileAcceptor" /\ RestartStep

\* C28: when the process ends at any point of the saving done by OnPrepare
\* or OnPropose, a Restart made afterwards returns an error, or restores
\* the promised number and accepted proposal that were in memory before the
\* interrupted request or those after it; the accepted number and value it
\* restores were carried together by some PROPOSE.
C28_CrashAtomicity ==
    [][RestartAfterCrash =>
          \/ ret'.err # "nil"
          \/ /\ \/ SameState(acc', Deref(history.before))
                \/ SameState(acc', Deref(history.after))
             /\ acceptedProposal' # nil =>
                    <<AcceptedUusn(acc'), putBytes(Deref(acceptedProposal').val)>>
                        \in history.carried]_vars

\* C31: in every state AcceptedUusn() is 0 exactly if no proposal has been
\* accepted, that is, the accepted number is above 0 exactly if an accepted
\* proposal is stored, whatever requests were made, PROPOSE 0 among them.
\* (States of a process that has panicked are left out: nothing can be
\* asked of it.)
C31_ZeroSentinel ==
    pc = "running" =>
        ((AcceptedUusn(acc) = 0) <=> (acceptedProposal = nil))

\* The last step was Proc.Respond on a frame that is no well-formed PREPARE
\* or PROPOSE.
RespondedMalformed == frame # nil /\ Deref(frame) \notin RequestFrames

\* C32: Respond does not panic on malformed input: for every frame, the
\* empty frame and the frames of one byte among them, it returns a reply or
\* an error; and a frame too short to hold a phase is not handled as a
\* PREPARE, so it is not answered with the error of decoding it as one.
C32_RespondNeverPanics ==
    RespondedMalformed =>
        /\ pc = "running"
        /\ response.err # "panic"
        /\ Len(Deref(frame)) < 2 =>
               response.err # toPrepareMessage(Deref(frame)).err

\* The accepted number is above the promised one.
AcceptedAbovePromised == AcceptedUusn(acc) > PromisedUusn(acc)

C34_PhaseAlphabet ==
    /\ <<Phase_PREPARE, Phase_PROPOSE, Phase_PROMISE, Phase_ACCEPT>>
           = <<0, 25, 51, 120>>
    /\ \A p, q \in Phases : p # q => HammingDistance(p, q) >= 2
    /\ \A p \in Phases, b \in TagBit : FlipBit(p, b) \notin Phases
    /\ wire.flipped # nil => Phase(Deref(wire.bytes)) \notin Phases

\* The lowest bit of the tag of a PROPOSE has been changed: the frame now
\* reads as phase 24.
C34_Witness ==
    /\ wire.flipped = Ptr(0)
    /\ Deref(wire.m).Phase = Phase_PROPOSE
    /\ Phase(Deref(wire.bytes)) = 24

====
